---- MODULE Spec2Model ----
(***************************************************************************)
(* State-machine model of the two Lambda handlers of amzn-s3-uploader:     *)
(*   src/lambda/presigned-url/lambda_function.py      ("plan")             *)
(*   src/lambda/complete-multipart/lambda_function.py ("finalize")         *)
(* and of the S3 control-plane calls they make.  An invocation occupies a   *)
(* slot; its steps end at the S3 calls that read or change a session        *)
(* (create, complete, abort), so invocations in different slots interleave  *)
(* at each of them; the signing of URLs touches no session and the signing  *)
(* loop is one step.                                                        *)
(*                                                                         *)
(* Encodings.  Python None of a string field is the value None; a missing   *)
(* fileSize is Absent; an object key f"uploads/{n}-{name}" is the record    *)
(* [prefix |-> n, name |-> name] (the decimal n ends at the first "-", so   *)
(* the record determines the string and the string the record); a request  *)
(* id is the sequence of the values of its hexadecimal digits.              *)
(***************************************************************************)
EXTENDS Integers, Sequences, FiniteSets

\* ------------------------------------------------------------------ bounds

\* Invocations that may be in flight at the same time (slots).
MaxInvocations == 2
\* Invocations started in one behaviour (each gets a fresh request id).
MaxRequests == 3
\* Upload sessions the store issues in one behaviour.
MaxSessions == 2

\* ------------------------------------------------------- program constants

\* 100 * 1024 * 1024 of is_large_file.
LargeFileThreshold == 100 * 1024 * 1024
\* part_size = 10 * 1024 * 1024.
part_size == 10 * 1024 * 1024
\* ExpiresIn=3600 of both generate_presigned_url calls.
ExpiresIn == 3600
\* context.aws_request_id[:8]
RequestIdPrefixLen == 8

MiB == 1024 * 1024

\* ------------------------------------------------------------ input values

None == "<None>"
Absent == -1
Slots == 1 .. MaxInvocations

\* `not x` of Python for a string-or-None field.
Falsy(x) == x = None \/ x = ""

FileNames == {None, "", "a.txt"}
FileTypes == {None, "", "video/mp4"}
\* absent, zero, the threshold, one byte above it, the 104 MiB example whose
\* last part is 4 MiB, and an exact multiple of the part size.
FileSizes == {Absent, 0, LargeFileThreshold, LargeFileThreshold + 1,
              104 * MiB, 110 * MiB}

\* The first eight hexadecimal digits of a request id: 0000000a and 00000010.
RequestIdPrefixes == {<<0, 0, 0, 0, 0, 0, 0, 10>>, <<0, 0, 0, 0, 0, 0, 1, 0>>}

\* Session ids the store issues, in the order it issues them.
SessionNames == <<"u1", "u2", "u3", "u4">>

NoneKey == [prefix |-> -1, name |-> None]
EmptyKey == [prefix |-> -1, name |-> ""]
FalsyKey(k) == k = NoneKey \/ k = EmptyKey

\* ------------------------------------------------------------------- state

VARIABLES
    pc,             \* slot -> position of the invocation in its handler
    handler,        \* slot -> "none" | "plan" | "finalize"
    event,          \* slot -> the request (method, parsed body, request id)
    key,            \* slot -> local `key`
    upload_id,      \* slot -> local `upload_id`
    parts_out,      \* slot -> presigned_urls (plan), multipart_upload_parts (finalize)
    result,         \* slot -> the returned response
    calls,          \* slot -> the S3 calls the invocation has issued, in order
    log,            \* slot -> the lines the invocation has printed, in order
    sessions,       \* the store: sequence of [key, contentType, state], with
                    \* its history: owner (request id of the plan that
                    \* initiated it), successes (success responses returned)
    nextRequest     \* number of invocations started so far

vars == <<pc, handler, event, key, upload_id, parts_out, result, calls, log,
          sessions, nextRequest>>

NoResult == [statusCode |-> 0]
NoEvent == [httpMethod |-> "none"]

Init ==
    /\ pc = [i \in Slots |-> "idle"]
    /\ handler = [i \in Slots |-> "none"]
    /\ event = [i \in Slots |-> NoEvent]
    /\ key = [i \in Slots |-> NoneKey]
    /\ upload_id = [i \in Slots |-> None]
    /\ parts_out = [i \in Slots |-> <<>>]
    /\ result = [i \in Slots |-> NoResult]
    /\ calls = [i \in Slots |-> <<>>]
    /\ log = [i \in Slots |-> <<>>]
    /\ sessions = <<>>
    /\ nextRequest = 0

\* ------------------------------------------------------------ the S3 store

\* Outcomes of an S3 call: it returns, it raises botocore ClientError (the
\* service answered with an error), or it raises another exception (parameter
\* validation, connection, credentials: BotoCoreError is no ClientError).
Outcomes == {"ok", "ClientError", "Exception"}

SessionIndex(id) ==
    IF \E n \in 1 .. Len(sessions) : SessionNames[n] = id
    THEN CHOOSE n \in 1 .. Len(sessions) : SessionNames[n] = id
    ELSE 0

\* Mutant: the store accepts a call for a session in any state.
SessionKnown(id, k) ==
    /\ SessionIndex(id) # 0
    /\ sessions[SessionIndex(id)].key = k

\* The session `id` exists for key `k` and is neither completed nor aborted.
SessionOpen(id, k) ==
    /\ SessionIndex(id) # 0
    /\ sessions[SessionIndex(id)].key = k
    /\ sessions[SessionIndex(id)].state = "initiated"

\* An S3 call as the invocation issued it, with what came back.
Call(op, k, id, n, outcome) ==
    [op |-> op, key |-> k, uploadId |-> id, partNumber |-> n, outcome |-> outcome]

\* --------------------------------------------------------- shared plumbing

\* A new invocation takes the lowest free slot (slots are interchangeable).
CanStart(i) ==
    /\ pc[i] = "idle"
    /\ \A j \in Slots : j < i => pc[j] # "idle"
    /\ nextRequest < MaxRequests

Return(i, res) ==
    /\ pc' = [pc EXCEPT ![i] = "done"]
    /\ result' = [result EXCEPT ![i] = res]

\* The response has been sent; the slot is free for the next invocation.
Retire(i) ==
    /\ pc[i] = "done"
    /\ pc' = [pc EXCEPT ![i] = "idle"]
    /\ handler' = [handler EXCEPT ![i] = "none"]
    /\ event' = [event EXCEPT ![i] = NoEvent]
    /\ key' = [key EXCEPT ![i] = NoneKey]
    /\ upload_id' = [upload_id EXCEPT ![i] = None]
    /\ parts_out' = [parts_out EXCEPT ![i] = <<>>]
    /\ result' = [result EXCEPT ![i] = NoResult]
    /\ calls' = [calls EXCEPT ![i] = <<>>]
    /\ log' = [log EXCEPT ![i] = <<>>]
    /\ UNCHANGED <<sessions, nextRequest>>

PreflightResponse == [statusCode |-> 200, body |-> "", preflight |-> TRUE]
Error(code, msg) == [statusCode |-> code, error |-> msg]

\* ------------------------------------------------------- plan: key derivation

RECURSIVE HexToInt(_)
\* int(s, 16) of a sequence of hexadecimal digit values.
HexToInt(ds) ==
    IF ds = <<>> THEN 0
    ELSE 16 * HexToInt(SubSeq(ds, 1, Len(ds) - 1)) + ds[Len(ds)]

\* key = f"uploads/{int(context.aws_request_id[:8], 16)}-{file_name}"
DeriveKey(requestId, fileName) ==
    [prefix |-> HexToInt(SubSeq(requestId, 1, RequestIdPrefixLen)),
     name |-> fileName]

\* Mutant: the comparison with the threshold is lost.
IsLargeFileTruthy(file_size) == file_size # Absent /\ file_size # 0

\* Mutant: a file of exactly the threshold counts as large.
IsLargeFileInclusive(file_size) ==
    /\ file_size # Absent
    /\ file_size # 0
    /\ file_size >= LargeFileThreshold

\* is_large_file = file_size and file_size > 100 * 1024 * 1024
IsLargeFile(file_size) ==
    /\ file_size # Absent
    /\ file_size # 0
    /\ file_size > LargeFileThreshold

\* math.ceil(a / b) for positive integers (exact below 2^53).
CeilDiv(a, b) == (a + b - 1) \div b

\* Mutant: integer division instead of math.ceil.
NumPartsFloor(file_size) == file_size \div part_size

\* num_parts = math.ceil(file_size / part_size)
NumParts(file_size) == CeilDiv(file_size, part_size)

\* ----------------------------------------------------------- plan: actions

\* The requests an invocation of plan may receive.
PlanEvents ==
    {e \in [httpMethod : {"POST"}, bodyOk : {TRUE},
            fileName : FileNames, fileType : FileTypes, fileSize : FileSizes] :
        \* a request the validation rejects is tried with one size, a large one
        Falsy(e.fileName) \/ Falsy(e.fileType) => e.fileSize = 104 * MiB}
    \cup
    \* a preflight request, and a body json.loads cannot parse
    {[httpMethod |-> "OPTIONS", bodyOk |-> TRUE, fileName |-> None,
      fileType |-> None, fileSize |-> Absent],
     [httpMethod |-> "POST", bodyOk |-> FALSE, fileName |-> None,
      fileType |-> None, fileSize |-> Absent]}

\* Mutant: a last part below 5 MiB is rejected as well.
PlanRejectsShortLastPart(e) ==
    \/ Falsy(e.fileName) \/ Falsy(e.fileType)
    \/ /\ e.fileSize > LargeFileThreshold
       /\ e.fileSize % part_size # 0
       /\ e.fileSize % part_size < 5 * MiB

\* if not file_name or not file_type
PlanRejects(e) == Falsy(e.fileName) \/ Falsy(e.fileType)

\* Lines 9-45: preflight, parsing, validation, key derivation, strategy.
PlanStart(i) ==
    /\ CanStart(i)
    /\ \E e \in PlanEvents, p \in RequestIdPrefixes :
         LET rid == p \o <<nextRequest>>
             ev == [httpMethod |-> e.httpMethod, bodyOk |-> e.bodyOk,
                    fileName |-> e.fileName, fileType |-> e.fileType,
                    fileSize |-> e.fileSize, requestId |-> rid]
         IN
         \* a request that derives no key is tried with one request id
         /\ (e.httpMethod = "OPTIONS" \/ ~e.bodyOk \/ PlanRejects(e)) =>
                p = <<0, 0, 0, 0, 0, 0, 0, 10>>
         /\ event' = [event EXCEPT ![i] = ev]
         /\ handler' = [handler EXCEPT ![i] = "plan"]
         /\ nextRequest' = nextRequest + 1
         /\ IF e.httpMethod = "OPTIONS"
            THEN /\ Return(i, PreflightResponse)
                 /\ UNCHANGED <<key, log>>
            ELSE IF ~e.bodyOk
            THEN /\ Return(i, Error(500, "Failed to generate presigned URL"))
                 /\ log' = [log EXCEPT ![i] = <<"Error generating presigned URL">>]
                 /\ UNCHANGED key
            ELSE IF PlanRejects(e)
            THEN /\ Return(i, Error(400, "fileName and fileType are required"))
                 /\ UNCHANGED <<key, log>>
            ELSE /\ key' = [key EXCEPT ![i] = DeriveKey(rid, e.fileName)]
                 /\ pc' = [pc EXCEPT ![i] =
                             IF IsLargeFile(e.fileSize) THEN "create_multipart_upload"
                             ELSE "presign_put_object"]
                 /\ UNCHANGED <<result, log>>
    /\ UNCHANGED <<upload_id, parts_out, calls, sessions>>

\* Mutant: the failure response carries what the plan had got so far.
PlanFailureKeepsMinted(i, outcome) ==
    /\ Return(i, [statusCode |-> 500, error |-> "AWS service error",
                  uploadId |-> upload_id[i], presignedUrls |-> parts_out[i]])
    /\ log' = [log EXCEPT ![i] = Append(@, "AWS error")]

\* Mutant: the failed call is logged and tried again.
PlanFailureRetries(i, outcome) ==
    /\ log' = [log EXCEPT ![i] = Append(@, "AWS error")]
    /\ UNCHANGED <<pc, result>>

\* The two except clauses of lines 112-126.
PlanFailure(i, outcome) ==
    IF outcome = "ClientError"
    THEN /\ Return(i, Error(500, "AWS service error"))
         /\ log' = [log EXCEPT ![i] = Append(@, "AWS error")]
    ELSE /\ Return(i, Error(500, "Failed to generate presigned URL"))
         /\ log' = [log EXCEPT ![i] = Append(@, "Error generating presigned URL")]

\* Lines 47-57: s3_client.create_multipart_upload.  S3 issues a fresh
\* UploadId for every call it accepts.
PlanInitiate(i) ==
    /\ pc[i] = "create_multipart_upload"
    /\ \E outcome \in Outcomes :
         /\ calls' = [calls EXCEPT ![i] =
                        Append(@, Call("initiate", key[i], None, 0, outcome))]
         /\ IF outcome = "ok"
            THEN
              /\ Len(sessions) < MaxSessions
              /\ sessions' = Append(sessions,
                     [key |-> key[i], contentType |-> event[i].fileType,
                      state |-> "initiated", successes |-> 0,
                      owner |-> event[i].requestId])
              /\ upload_id' = [upload_id EXCEPT ![i] = SessionNames[Len(sessions) + 1]]
              /\ pc' = [pc EXCEPT ![i] = "presign_upload_part"]
              /\ UNCHANGED <<result, log>>
            ELSE
              /\ PlanFailure(i, outcome)
              /\ UNCHANGED <<sessions, upload_id>>
    /\ UNCHANGED <<handler, event, key, parts_out, nextRequest>>

PresignedUrl(op, k, id, n) ==
    [op |-> op, key |-> k, uploadId |-> id, partNumber |-> n, expires |-> ExpiresIn]

RECURSIVE MintedParts(_, _, _)
\* presigned_urls after the iterations part_number = 1 .. n of lines 61-76.
MintedParts(k, id, n) ==
    IF n = 0 THEN <<>>
    ELSE Append(MintedParts(k, id, n - 1),
                [partNumber |-> n,
                 presignedUrl |-> PresignedUrl("upload_part", k, id, n)])

\* The generate_presigned_url calls of the iterations 1 .. n, the last of
\* which ends with `outcome`.
MintCalls(k, id, n, outcome) ==
    [m \in 1 .. n |-> Call("mint", k, id, m, IF m = n THEN outcome ELSE "ok")]

\* The iterations whose call is let fail: the first, the second, the last.
MintFailurePoints(n) == {1, 2, n}

\* Lines 61-76: the loop over range(1, num_parts + 1).  Signing a URL is local
\* to the invocation, so the loop is one step: every call returns (failAt = 0),
\* or the call of iteration failAt raises and ends the loop.
PlanMintParts(i) ==
    /\ pc[i] = "presign_upload_part"
    /\ LET num_parts == NumParts(event[i].fileSize) IN
       \E failAt \in {0} \cup MintFailurePoints(num_parts), outcome \in Outcomes :
         /\ failAt = 0 <=> outcome = "ok"
         /\ calls' = [calls EXCEPT ![i] = @ \o
                MintCalls(key[i], upload_id[i],
                          IF failAt = 0 THEN num_parts ELSE failAt, outcome)]
         /\ parts_out' = [parts_out EXCEPT ![i] =
                MintedParts(key[i], upload_id[i],
                            IF failAt = 0 THEN num_parts ELSE failAt - 1)]
         /\ IF outcome = "ok"
            THEN /\ pc' = [pc EXCEPT ![i] = "return_multipart"]
                 /\ UNCHANGED <<result, log>>
            ELSE PlanFailure(i, outcome)
    /\ UNCHANGED <<handler, event, key, upload_id, sessions, nextRequest>>

\* Lines 78-88: the response of a multipart plan.
MultipartResponse(id, k, urls) ==
    [statusCode |-> 200, uploadType |-> "multipart", uploadId |-> id, key |-> k,
     presignedUrls |-> urls, partSize |-> part_size]

\* Lines 102-110: the response of a single-shot plan.
SingleResponse(url, k) ==
    [statusCode |-> 200, uploadType |-> "single", presignedUrl |-> url, key |-> k]

\* Lines 78-88: the loop is over, the multipart plan is returned.
PlanReturnMultipart(i) ==
    /\ pc[i] = "return_multipart"
    /\ Return(i, MultipartResponse(upload_id[i], key[i], parts_out[i]))
    /\ UNCHANGED <<handler, event, key, upload_id, parts_out, calls, log,
                   sessions, nextRequest>>

\* Lines 90-110: single part upload for smaller files.
PlanMintSingle(i) ==
    /\ pc[i] = "presign_put_object"
    /\ \E outcome \in Outcomes :
         /\ calls' = [calls EXCEPT ![i] =
                        Append(@, Call("mint", key[i], None, 0, outcome))]
         /\ IF outcome = "ok"
            THEN /\ Return(i, SingleResponse(
                                PresignedUrl("put_object", key[i], None, 0), key[i]))
                 /\ UNCHANGED log
            ELSE PlanFailure(i, outcome)
    /\ UNCHANGED <<handler, event, key, upload_id, parts_out, sessions, nextRequest>>

\* ------------------------------------------------------- finalize: inputs

\* A manifest entry as the caller sends it: a part dict may lack its 'ETag' or
\* its 'PartNumber' key, and its 'PartNumber' may be a JSON string instead of a
\* number.
Entry(tag, n) == [hasETag |-> TRUE, ETag |-> tag, PartNumber |-> n, pnType |-> "int"]
EntryNoETag(n) == [hasETag |-> FALSE, ETag |-> None, PartNumber |-> n, pnType |-> "int"]
EntryNoPartNumber(tag) ==
    [hasETag |-> TRUE, ETag |-> tag, PartNumber |-> 0, pnType |-> "missing"]
EntryStrPartNumber(tag, n) ==
    [hasETag |-> TRUE, ETag |-> tag, PartNumber |-> n, pnType |-> "str"]

\* body.get('parts'): absent, a list, or a truthy value that is no list.
PartsNull == [kind |-> "null", items |-> <<>>]
PartsObject == [kind |-> "object", items |-> <<>>]
PartsList(items) == [kind |-> "list", items |-> items]

\* `not parts`
FalsyParts(parts) == parts.kind = "null" \/ (parts.kind = "list" /\ parts.items = <<>>)

\* Manifests of well-formed entries: complete, reordered, incomplete, duplicated.
WellFormedManifests ==
    {<<Entry("e1", 1), Entry("e2", 2)>>, <<Entry("e2", 2), Entry("e1", 1)>>,
     <<Entry("e1", 1)>>, <<Entry("e1", 1), Entry("e1", 1)>>}
MalformedManifests ==
    {<<Entry("e1", 1), EntryNoETag(2)>>, <<EntryNoPartNumber("e1")>>,
     <<EntryStrPartNumber("e1", 1)>>}

FinalizeKeys == {DeriveKey(p \o <<0>>, "a.txt") : p \in RequestIdPrefixes}
FinalizeUploadIds == {SessionNames[n] : n \in 1 .. MaxSessions}

\* The requests an invocation of finalize may receive: every session id and key
\* with every manifest; every missing, empty or present session id and key with
\* every shape of `parts`; a preflight request; a body json.loads cannot parse.
FinalizeEvents ==
    [httpMethod : {"POST"}, bodyOk : {TRUE}, uploadId : FinalizeUploadIds,
     key : FinalizeKeys,
     parts : {PartsList(m) : m \in WellFormedManifests \cup MalformedManifests}]
    \cup
    {[httpMethod |-> "POST", bodyOk |-> TRUE, uploadId |-> u, key |-> k, parts |-> ps] :
        u \in {None, "", "u1"}, k \in {NoneKey, EmptyKey} \cup FinalizeKeys,
        ps \in {PartsNull, PartsObject, PartsList(<<>>), PartsList(<<Entry("e1", 1)>>)}}
    \cup
    {[httpMethod |-> "OPTIONS", bodyOk |-> TRUE, uploadId |-> None, key |-> NoneKey,
      parts |-> PartsNull],
     [httpMethod |-> "POST", bodyOk |-> FALSE, uploadId |-> None, key |-> NoneKey,
      parts |-> PartsNull]}

\* Mutant: the isinstance check is lost.
FinalizeRejectsAnyParts(e) ==
    Falsy(e.uploadId) \/ FalsyKey(e.key) \/ FalsyParts(e.parts)

\* if not upload_id or not key or not parts or not isinstance(parts, list)
FinalizeRejects(e) ==
    Falsy(e.uploadId) \/ FalsyKey(e.key) \/ FalsyParts(e.parts) \/ e.parts.kind # "list"

\* Lines 41-46: every part dict has the two keys the loop reads.
PartsReadable(items) ==
    \A n \in 1 .. Len(items) : items[n].hasETag /\ items[n].pnType # "missing"

\* Mutant: the parts are numbered by their position in the list.
FormatPartsRenumbered(items) ==
    [n \in 1 .. Len(items) |->
        [ETag |-> items[n].ETag, PartNumber |-> n, pnType |-> items[n].pnType]]

\* Lines 41-46: multipart_upload_parts.
FormatParts(items) ==
    [n \in 1 .. Len(items) |->
        [ETag |-> items[n].ETag, PartNumber |-> items[n].PartNumber,
         pnType |-> items[n].pnType]]

\* botocore validates the parameters before it sends the request.
ParamsValid(parts) == \A n \in 1 .. Len(parts) : parts[n].pnType = "int"

\* ------------------------------------------------------ finalize: actions

\* The except clause of lines 88-94.
FinalizeFailure == Error(500, "Failed to complete multipart upload")

\* Lines 8-46: preflight, parsing, validation, formatting of the parts.
FinalizeStart(i) ==
    /\ CanStart(i)
    /\ \E e \in FinalizeEvents :
         /\ event' = [event EXCEPT ![i] = e]
         /\ handler' = [handler EXCEPT ![i] = "finalize"]
         /\ nextRequest' = nextRequest + 1
         /\ IF e.httpMethod = "OPTIONS"
            THEN /\ Return(i, PreflightResponse)
                 /\ UNCHANGED <<key, upload_id, parts_out, log>>
            ELSE IF ~e.bodyOk
            THEN /\ Return(i, FinalizeFailure)
                 /\ log' = [log EXCEPT ![i] = <<"Error completing multipart upload">>]
                 /\ UNCHANGED <<key, upload_id, parts_out>>
            ELSE \* upload_id, key and parts are bound (lines 27-29)
              /\ key' = [key EXCEPT ![i] = e.key]
              /\ upload_id' = [upload_id EXCEPT ![i] = e.uploadId]
              /\ IF FinalizeRejects(e)
                 THEN /\ Return(i, Error(400,
                                "uploadId, key, and parts array are required"))
                      /\ UNCHANGED <<parts_out, log>>
                 ELSE IF ~PartsReadable(e.parts.items)
                 THEN \* part['ETag'] or part['PartNumber'] raises KeyError
                      /\ Return(i, FinalizeFailure)
                      /\ log' = [log EXCEPT ![i] =
                                   <<"Error completing multipart upload">>]
                      /\ UNCHANGED parts_out
                 ELSE /\ parts_out' = [parts_out EXCEPT ![i] =
                                         FormatParts(e.parts.items)]
                      /\ pc' = [pc EXCEPT ![i] = "complete_multipart_upload"]
                      /\ UNCHANGED <<result, log>>
    /\ UNCHANGED <<calls, sessions>>

\* A response without any of the fields the handler reads.
NoResponse == [Location |-> None, Key |-> NoneKey, ETag |-> None]

\* What S3 reports for a completed upload; a response may lack a field.
CompleteResponses(k) ==
    {[Location |-> "s3-location", Key |-> k, ETag |-> "final-etag"], NoResponse}

\* response.get(name, default)
Get(value, default, none) == IF value = none THEN default ELSE value

\* Mutant: location and etag are taken from each other's field.
SuccessResponseSwapped(response, k) ==
    [statusCode |-> 200, success |-> TRUE,
     location |-> Get(response.ETag, "", None),
     key |-> Get(response.Key, k, NoneKey),
     etag |-> Get(response.Location, "", None)]

\* Lines 56-65: the success response.
SuccessResponse(response, k) ==
    [statusCode |-> 200, success |-> TRUE,
     location |-> Get(response.Location, "", None),
     key |-> Get(response.Key, k, NoneKey),
     etag |-> Get(response.ETag, "", None)]

\* Mutant: a failed abort is reported in the response.
AbortedResponsePartial(outcome) ==
    IF outcome \in {"ClientError", "Exception"}
    THEN [statusCode |-> 500,
          error |-> "AWS service error completing multipart upload",
          abortError |-> outcome]
    ELSE Error(500, "AWS service error completing multipart upload")

\* Mutant: a failed abort replaces the error of the completion.
AbortedResponseMasked(outcome) ==
    IF outcome \in {"ClientError", "Exception"}
    THEN Error(500, "Failed to complete multipart upload")
    ELSE Error(500, "AWS service error completing multipart upload")

\* Lines 82-86: the response after a ClientError; `outcome` is what the abort
\* of lines 71-80 did ("none": it was not attempted).
AbortedResponse(outcome) ==
    Error(500, "AWS service error completing multipart upload")

\* The state S3 holds for the session `id` when a call for it arrives.
SessionState(id) ==
    IF SessionIndex(id) = 0 THEN "unknown" ELSE sessions[SessionIndex(id)].state

\* Mutant: an exception that is no ClientError is taken for a return.
CompleteHandlerSwallowsException(outcome) ==
    IF outcome = "ClientError" THEN "abort" ELSE "success"

\* Mutant: a ClientError is taken for a return.
CompleteHandlerSwallowsClientError(outcome) ==
    IF outcome = "Exception" THEN "failure" ELSE "success"

\* Mutant: the abort is attempted after a return as well (a `finally`).
CompleteHandlerAbortsAlways(outcome) ==
    IF outcome = "Exception" THEN "failure" ELSE "abort"

\* Where control goes when complete_multipart_upload ends with `outcome`:
\* the success response of lines 56-65 on a return, the abort of line 67 on a
\* ClientError, the failure response of line 88 on any other exception.
CompleteHandler(outcome) ==
    IF outcome = "ok" THEN "success"
    ELSE IF outcome = "ClientError" THEN "abort"
    ELSE "failure"

\* Lines 49-65, and what the two except clauses do with what the call raises.
\* S3 completes a session only if it is open; botocore raises (no ClientError)
\* on parameters of the wrong type before it sends anything.  The call record
\* keeps the state the session was in when the call arrived, and the session
\* counts the success responses returned for it.
FinalizeComplete(i) ==
    /\ pc[i] = "complete_multipart_upload"
    /\ \E outcome \in Outcomes, response \in CompleteResponses(key[i]) :
         LET n == SessionIndex(upload_id[i])
             stored == IF outcome = "ok"
                       THEN [sessions EXCEPT ![n].state = "completed"]
                       ELSE sessions
         IN
         /\ outcome = "ok" =>
               ParamsValid(parts_out[i]) /\ SessionOpen(upload_id[i], key[i])
         /\ outcome = "ClientError" => ParamsValid(parts_out[i])
         /\ outcome # "ok" => response = NoResponse
         /\ calls' = [calls EXCEPT ![i] =
                Append(@, [op |-> "complete", key |-> key[i],
                           uploadId |-> upload_id[i], partNumber |-> 0,
                           outcome |-> outcome, parts |-> parts_out[i],
                           response |-> response,
                           sessionState |-> SessionState(upload_id[i])])]
         /\ IF CompleteHandler(outcome) = "success"
            THEN /\ Return(i, SuccessResponse(response, key[i]))
                 /\ sessions' = IF n = 0 THEN stored
                                ELSE [stored EXCEPT ![n].successes = @ + 1]
                 /\ UNCHANGED log
            ELSE IF CompleteHandler(outcome) = "abort"
            THEN /\ log' = [log EXCEPT ![i] =
                              Append(@, "AWS error completing multipart upload")]
                 /\ pc' = [pc EXCEPT ![i] = "abort_multipart_upload"]
                 /\ sessions' = stored
                 /\ UNCHANGED result
            ELSE /\ Return(i, FinalizeFailure)
                 /\ log' = [log EXCEPT ![i] =
                              Append(@, "Error completing multipart upload")]
                 /\ sessions' = stored
    /\ UNCHANGED <<handler, event, key, upload_id, parts_out, nextRequest>>

\* Lines 70-86: the abort attempted after a ClientError, and the response.
\* S3 aborts a session only if it is open.  The call record keeps the state
\* the session was in when the call arrived.
FinalizeAbort(i) ==
    /\ pc[i] = "abort_multipart_upload"
    /\ IF ~Falsy(upload_id[i]) /\ ~FalsyKey(key[i])
       THEN \E outcome \in Outcomes :
              /\ outcome = "ok" => SessionOpen(upload_id[i], key[i])
              /\ calls' = [calls EXCEPT ![i] =
                     Append(@, [op |-> "abort", key |-> key[i],
                                uploadId |-> upload_id[i], partNumber |-> 0,
                                outcome |-> outcome,
                                sessionState |-> SessionState(upload_id[i])])]
              /\ IF outcome = "ok"
                 THEN /\ sessions' = [sessions EXCEPT
                                        ![SessionIndex(upload_id[i])].state = "aborted"]
                      /\ log' = [log EXCEPT ![i] =
                                   Append(@, "Aborted multipart upload")]
                 ELSE /\ log' = [log EXCEPT ![i] =
                                   Append(@, "Error aborting multipart upload")]
                      /\ UNCHANGED sessions
              /\ Return(i, AbortedResponse(outcome))
       ELSE /\ Return(i, AbortedResponse("none"))
            /\ UNCHANGED <<calls, log, sessions>>
    /\ UNCHANGED <<handler, event, key, upload_id, parts_out, nextRequest>>

\* ------------------------------------------------------------ specification

\* A returned invocation leaves its slot before anything else happens: the
\* order of the S3 calls of the other invocations is not affected.
NoneDone == \A i \in Slots : pc[i] # "done"

Next ==
    \E i \in Slots :
        \/ Retire(i)
        \/ NoneDone /\ PlanStart(i)
        \/ NoneDone /\ PlanInitiate(i)
        \/ NoneDone /\ PlanMintParts(i)
        \/ NoneDone /\ PlanReturnMultipart(i)
        \/ NoneDone /\ PlanMintSingle(i)
        \/ NoneDone /\ FinalizeStart(i)
        \/ NoneDone /\ FinalizeComplete(i)
        \/ NoneDone /\ FinalizeAbort(i)

Spec == Init /\ [][Next]_vars

\* ------------------------------------------------------------------ claims
\* The vocabulary of the claims (read off the state, independent of the
\* operators the handlers are modelled with), then the claims in order.

Done(i) == pc[i] = "done"
IsPlan(i) == handler[i] = "plan"
IsFinalize(i) == handler[i] = "finalize"

\* The body was parsed: the request reached the validation.
Parsed(e) == e.httpMethod = "POST" /\ e.bodyOk

\* A plan request with a non-empty fileName and fileType.
ValidPlanRequest(e) ==
    Parsed(e) /\ e.fileName \notin {None, ""} /\ e.fileType \notin {None, ""}

\* A finalize request with a session id, a key and a non-empty list of parts.
ValidFinalizeRequest(e) ==
    /\ Parsed(e)
    /\ e.uploadId \notin {None, ""}
    /\ e.key \notin {NoneKey, EmptyKey}
    /\ e.parts.kind = "list"
    /\ e.parts.items # <<>>

\* fileSize is absent or at most the large-file threshold.
SingleShotSize(e) == e.fileSize = Absent \/ e.fileSize <= 100 * MiB

\* The positions in calls[i] of the calls of operation op.
CallsOf(i, op) == {n \in DOMAIN calls[i] : calls[i][n].op = op}

AllCallsOk(i) == \A n \in DOMAIN calls[i] : calls[i][n].outcome = "ok"
CompleteFailed(i) == \E n \in CallsOf(i, "complete") : calls[i][n].outcome # "ok"
CompleteSucceeded(i) == \E n \in CallsOf(i, "complete") : calls[i][n].outcome = "ok"
AbortFailed(i) == \E n \in CallsOf(i, "abort") : calls[i][n].outcome # "ok"

\* The result finalize returns when the completion is rejected and the abort works.
PlainStoreError ==
    [statusCode |-> 500, error |-> "AWS service error completing multipart upload"]

\* C1: whenever the completeSession call of a validated finalize fails, by any
\* kind of failure, finalize has issued exactly one abortSession call, for the
\* same session id and key, after it, and returns a failure.
Claim_C1 ==
    \A i \in Slots :
        (IsFinalize(i) /\ Done(i) /\ ValidFinalizeRequest(event[i]) /\ CompleteFailed(i))
        => /\ Cardinality(CallsOf(i, "abort")) = 1
           /\ \A n \in CallsOf(i, "abort") :
                /\ calls[i][n].uploadId = event[i].uploadId
                /\ calls[i][n].key = event[i].key
                /\ \E m \in CallsOf(i, "complete") : m < n
           /\ result[i].statusCode = 500

\* C2 as stated: when the completion and the compensating abort both fail, the
\* result is a PartialFailure: it differs from the plain StoreError result and
\* carries the completion error and the abort error.
Claim_C2 ==
    \A i \in Slots :
        (IsFinalize(i) /\ Done(i) /\ CompleteFailed(i) /\ AbortFailed(i))
        => /\ result[i] # PlainStoreError
           /\ {"completionError", "abortError"} \subseteq DOMAIN result[i]

\* C2 as amended: when the completion is rejected and the compensating abort
\* also fails, finalize returns the plain StoreError result, with no field for
\* the abort error; the abort failure is the last line of the log, nothing more.
Thm_C2 ==
    \A i \in Slots :
        (IsFinalize(i) /\ Done(i) /\ CompleteFailed(i) /\ AbortFailed(i))
        => /\ result[i] = PlainStoreError
           /\ DOMAIN result[i] = {"statusCode", "error"}
           /\ log[i][Len(log[i])] = "Error aborting multipart upload"

Wit_C2 ==
    \E i \in Slots :
        /\ IsFinalize(i) /\ Done(i) /\ CompleteFailed(i) /\ AbortFailed(i)
        /\ log[i] = <<"AWS error completing multipart upload",
                      "Error aborting multipart upload">>

\* C3: when completeSession fails, the result is a StoreError (status 500), and
\* once an abort has been attempted the result is the same response whether
\* that abort succeeded or failed.
Thm_C3 ==
    \A i \in Slots :
        (IsFinalize(i) /\ Done(i) /\ CompleteFailed(i))
        => /\ result[i].statusCode = 500
           /\ CallsOf(i, "abort") # {} =>
                \A outcome \in Outcomes :
                    (\E n \in CallsOf(i, "abort") : calls[i][n].outcome = outcome)
                    => result[i] = PlainStoreError

Wit_C3 ==
    \E i \in Slots :
        /\ IsFinalize(i) /\ Done(i) /\ CompleteFailed(i)
        /\ \E n \in CallsOf(i, "abort") : calls[i][n].outcome = "Exception"
        /\ SessionOpen(event[i].uploadId, event[i].key)

\* C4: a validated finalize whose completeSession call succeeds returns
\* success: true with the key, integrity tag and location the store reported
\* (the request's key and empty strings for what the store left out), and has
\* issued no abortSession call.
Thm_C4 ==
    \A i \in Slots :
        (IsFinalize(i) /\ Done(i) /\ ValidFinalizeRequest(event[i]) /\ CompleteSucceeded(i))
        => /\ result[i].statusCode = 200
           /\ result[i].success = TRUE
           /\ \A n \in CallsOf(i, "complete") :
                LET r == calls[i][n].response IN
                /\ result[i].key = IF r.Key = NoneKey THEN event[i].key ELSE r.Key
                /\ result[i].etag = IF r.ETag = None THEN "" ELSE r.ETag
                /\ result[i].location = IF r.Location = None THEN "" ELSE r.Location
           /\ CallsOf(i, "abort") = {}
           /\ Len(calls[i]) = 1

Wit_C4 ==
    \E i \in Slots :
        /\ IsFinalize(i) /\ Done(i) /\ CompleteSucceeded(i)
        /\ result[i].etag = "final-etag"
        /\ result[i].location = "s3-location"
        /\ sessions[SessionIndex(event[i].uploadId)].state = "completed"

\* C5: a valid plan request whose fileSize is absent or at most the threshold
\* issues one call, the minting of one put authorization, and no initiate call
\* or other store mutation; when that call returns, the result is a single-mode
\* plan with exactly that one authorization.
Thm_C5 ==
    \A i \in Slots :
        (IsPlan(i) /\ Done(i) /\ ValidPlanRequest(event[i]) /\ SingleShotSize(event[i]))
        => /\ Len(calls[i]) = 1
           /\ calls[i][1].op = "mint"
           /\ CallsOf(i, "initiate") = {}
           /\ AllCallsOk(i) <=> result[i].statusCode = 200
           /\ result[i].statusCode = 200 =>
                /\ DOMAIN result[i] = {"statusCode", "uploadType", "presignedUrl", "key"}
                /\ result[i].uploadType = "single"
                /\ result[i].presignedUrl.op = "put_object"
                /\ result[i].presignedUrl.key = result[i].key

Wit_C5 ==
    \E i \in Slots :
        /\ IsPlan(i) /\ Done(i) /\ ValidPlanRequest(event[i])
        /\ event[i].fileSize = 100 * MiB
        /\ result[i].statusCode = 200
        /\ result[i].uploadType = "single"

\* The least n with n * size >= total.
Ceiling(total, size) ==
    CHOOSE n \in 0 .. (total \div size) + 1 :
        n * size >= total /\ (n - 1) * size < total

\* C6: a multipart plan for a valid fileSize above the threshold holds exactly
\* ceil(fileSize / partSize) authorizations, the k-th of which (counted from 1)
\* has partNumber k; the plan is returned whenever every store call returned.
Thm_C6 ==
    \A i \in Slots :
        (IsPlan(i) /\ Done(i) /\ ValidPlanRequest(event[i]) /\ ~SingleShotSize(event[i]))
        => /\ AllCallsOk(i) => result[i].statusCode = 200
           /\ result[i].statusCode = 200 =>
                /\ result[i].uploadType = "multipart"
                /\ Len(result[i].presignedUrls) =
                       Ceiling(event[i].fileSize, result[i].partSize)
                /\ \A k \in 1 .. Len(result[i].presignedUrls) :
                       result[i].presignedUrls[k].partNumber = k

Wit_C6 ==
    \E i \in Slots :
        /\ IsPlan(i) /\ Done(i)
        /\ event[i].fileSize = 110 * MiB
        /\ result[i].statusCode = 200
        /\ Len(result[i].presignedUrls) = 11
        /\ result[i].presignedUrls[11].partNumber = 11

\* The store's minimum part size of the claim (5 MiB).
StoreMinPartSize == 5 * MiB

\* The last part of the file is the non-zero remainder and is below the minimum.
UndersizedLastPart(e) ==
    /\ e.fileSize % (10 * MiB) # 0
    /\ e.fileSize % (10 * MiB) < StoreMinPartSize

\* C7 as stated: a multipart plan whose last part would be smaller than the
\* store's minimum part size fails with InvalidRequest (status 400); a fileSize
\* that is an exact multiple of the part size succeeds.
Claim_C7 ==
    \A i \in Slots :
        (IsPlan(i) /\ Done(i) /\ ValidPlanRequest(event[i]) /\ ~SingleShotSize(event[i]))
        => /\ UndersizedLastPart(event[i]) => result[i].statusCode = 400
           /\ (event[i].fileSize % (10 * MiB) = 0 /\ AllCallsOk(i)) =>
                result[i].statusCode = 200

\* C7 as amended: plan does not check the size of the last part.  A valid
\* request above the threshold whose last part is smaller than the store's
\* minimum is never answered InvalidRequest: it initiates a session, and when
\* every store call returns it gets a multipart plan with one authorization per
\* full part and one for the short last part; an exact multiple succeeds too.
Thm_C7 ==
    \A i \in Slots :
        (IsPlan(i) /\ Done(i) /\ ValidPlanRequest(event[i]) /\ ~SingleShotSize(event[i]))
        => /\ UndersizedLastPart(event[i]) =>
                /\ result[i].statusCode # 400
                /\ CallsOf(i, "initiate") # {}
                /\ AllCallsOk(i) =>
                     /\ result[i].statusCode = 200
                     /\ Len(result[i].presignedUrls) =
                            (event[i].fileSize \div (10 * MiB)) + 1
           /\ (event[i].fileSize % (10 * MiB) = 0 /\ AllCallsOk(i)) =>
                /\ result[i].statusCode = 200
                /\ Len(result[i].presignedUrls) = event[i].fileSize \div (10 * MiB)

Wit_C7 ==
    \E i \in Slots :
        /\ IsPlan(i) /\ Done(i)
        /\ event[i].fileSize = 104 * MiB
        /\ UndersizedLastPart(event[i])
        /\ result[i].statusCode = 200
        /\ Len(result[i].presignedUrls) = 11

\* C8: two plan invocations with distinct request identifiers and the same
\* fileName, fileType and fileSize have distinct object keys.
Claim_C8 ==
    \A i, j \in Slots :
        (/\ i # j
         /\ IsPlan(i) /\ IsPlan(j)
         /\ ValidPlanRequest(event[i]) /\ ValidPlanRequest(event[j])
         /\ event[i].requestId # event[j].requestId
         /\ event[i].fileName = event[j].fileName
         /\ event[i].fileType = event[j].fileType
         /\ event[i].fileSize = event[j].fileSize)
        => key[i] # key[j]

\* C9: a plan request whose fileName or fileType is missing or empty, and a
\* finalize request whose sessionId or objectKey is missing or empty or whose
\* manifest is empty or no list, is answered InvalidRequest (status 400) and
\* the invocation has issued no store call.
Thm_C9 ==
    \A i \in Slots :
        (Done(i) /\ Parsed(event[i])) =>
            /\ (IsPlan(i) /\ ~ValidPlanRequest(event[i])) =>
                 result[i].statusCode = 400 /\ calls[i] = <<>>
            /\ (IsFinalize(i) /\ ~ValidFinalizeRequest(event[i])) =>
                 result[i].statusCode = 400 /\ calls[i] = <<>>

Wit_C9 ==
    \E i \in Slots :
        /\ IsFinalize(i) /\ Done(i)
        /\ event[i].uploadId = "u1"
        /\ event[i].parts = PartsObject
        /\ SessionOpen("u1", event[i].key)
        /\ result[i].statusCode = 400

\* C10: a valid plan request is handled in multipart mode exactly if its
\* fileSize is present and strictly greater than the threshold: it then starts
\* with the initiate call and a returned plan is of type multipart; otherwise
\* (absent, zero, equal to the threshold) it starts with the minting of the put
\* authorization and a returned plan is of type single.
Thm_C10 ==
    \A i \in Slots :
        (IsPlan(i) /\ ValidPlanRequest(event[i])) =>
            LET large == event[i].fileSize # Absent /\ event[i].fileSize > 100 * MiB IN
            /\ pc[i] \in {"create_multipart_upload", "presign_upload_part",
                          "return_multipart"} => large
            /\ pc[i] = "presign_put_object" => ~large
            /\ Done(i) =>
                 /\ calls[i] # <<>>
                 /\ calls[i][1].op = "initiate" <=> large
                 /\ calls[i][1].op = "mint" <=> ~large
                 /\ result[i].statusCode = 200 =>
                      (result[i].uploadType = "multipart" <=> large)
                 /\ result[i].statusCode = 200 =>
                      (result[i].uploadType = "single" <=> ~large)

Wit_C10 ==
    \E i \in Slots :
        /\ IsPlan(i) /\ Done(i)
        /\ event[i].fileSize = 100 * MiB + 1
        /\ result[i].statusCode = 200
        /\ result[i].uploadType = "multipart"

\* The sessions S3 holds, and the ones that reached a terminal state.
StoredSessions == 1 .. Len(sessions)
Terminal(state) == state \in {"completed", "aborted"}

\* The state the session was in when invocation i's complete call arrived.
SeenByComplete(i) == {calls[i][n].sessionState : n \in CallsOf(i, "complete")}

ReadableManifest(e) ==
    \A k \in DOMAIN e.parts.items :
        e.parts.items[k].hasETag /\ e.parts.items[k].pnType # "missing"

\* The complete call of invocation i has returned or raised.
PastComplete(i) == pc[i] \in {"abort_multipart_upload", "done"}

\* C12: a finalize with a valid request issues its one completeSession call
\* for the requested session whatever state the session is in, also when it
\* is already completed or aborted; it returns success exactly when that
\* very call was accepted, and a call that found the session completed or
\* aborted is rejected and ends in a failure result.
Thm_C12 ==
    \A i \in Slots :
        (/\ IsFinalize(i) /\ PastComplete(i)
         /\ ValidFinalizeRequest(event[i]) /\ ReadableManifest(event[i]))
        => /\ Cardinality(CallsOf(i, "complete")) = 1
           /\ \A n \in CallsOf(i, "complete") :
                /\ calls[i][n].uploadId = event[i].uploadId
                /\ calls[i][n].key = event[i].key
                /\ Terminal(calls[i][n].sessionState) => calls[i][n].outcome # "ok"
           /\ Done(i) => (result[i].statusCode = 200 <=> CompleteSucceeded(i))
           /\ (Done(i) /\ \E st \in SeenByComplete(i) : Terminal(st))
                => result[i].statusCode = 500

\* A finalize on a session that an earlier finalize had aborted: the complete
\* call was issued all the same, and the result is the store's rejection.
Wit_C12 ==
    \E i \in Slots :
        /\ IsFinalize(i) /\ Done(i)
        /\ "aborted" \in SeenByComplete(i)
        /\ Cardinality(CallsOf(i, "complete")) = 1
        /\ result[i].statusCode = 500

\* C13: an abortSession call is issued only right after the completeSession
\* call of the same invocation has failed, at most once, and it is the last
\* thing the invocation does: its outcome is in before finalize returns, and
\* finalize returns with it whether the abort worked or not.  While the abort
\* is pending nothing blocks it.
Thm_C13 ==
    \A i \in Slots :
        IsFinalize(i)
        => /\ Cardinality(CallsOf(i, "abort")) <= 1
           /\ \A n \in CallsOf(i, "abort") :
                /\ n > 1
                /\ calls[i][n - 1].op = "complete"
                /\ calls[i][n - 1].outcome # "ok"
                /\ n = Len(calls[i])
                /\ calls[i][n].outcome \in Outcomes
                /\ Done(i)
                /\ result[i].statusCode = 500
           /\ pc[i] = "abort_multipart_upload" => ENABLED FinalizeAbort(i)

\* The completion failed, the abort that followed raised, finalize returned.
Wit_C13 ==
    \E i \in Slots :
        /\ IsFinalize(i) /\ Done(i)
        /\ Len(calls[i]) = 2
        /\ calls[i][1].op = "complete" /\ calls[i][1].outcome = "ClientError"
        /\ calls[i][2].op = "abort" /\ calls[i][2].outcome = "Exception"

\* Invocation i initiated a session, and a later call of it failed.
InitiatedThenFailed(i) ==
    \E n \in CallsOf(i, "initiate") :
        /\ calls[i][n].outcome = "ok"
        /\ \E m \in DOMAIN calls[i] : m > n /\ calls[i][m].op = "mint"
                                       /\ calls[i][m].outcome # "ok"

\* C14: a plan that fails on a store error after it has initiated a session
\* has issued an abortSession call for that session before it returns its
\* failure (whether or not the abort worked).
Claim_C14 ==
    \A i \in Slots :
        (IsPlan(i) /\ Done(i) /\ InitiatedThenFailed(i))
        => /\ result[i].statusCode = 500
           /\ \E n \in CallsOf(i, "abort") :
                /\ calls[i][n].uploadId = upload_id[i]
                /\ calls[i][n].key = key[i]

\* The initiate call of invocation i failed.
InitiateFailed(i) == \E n \in CallsOf(i, "initiate") : calls[i][n].outcome # "ok"

\* C15: a plan issues at most one initiate call; when it fails, that call is
\* the plan's only store call (no retry, nothing minted) and the plan has
\* returned a failure that carries an error and nothing else.
Thm_C15 ==
    \A i \in Slots :
        IsPlan(i)
        => /\ Cardinality(CallsOf(i, "initiate")) <= 1
           /\ InitiateFailed(i)
                => /\ Done(i)
                   /\ Len(calls[i]) = 1
                   /\ parts_out[i] = <<>>
                   /\ upload_id[i] = None
                   /\ result[i].statusCode = 500
                   /\ DOMAIN result[i] = {"statusCode", "error"}

\* A multipart plan whose initiate call raised: one call, a failure result.
Wit_C15 ==
    \E i \in Slots :
        /\ IsPlan(i) /\ Done(i)
        /\ InitiateFailed(i)
        /\ Len(calls[i]) = 1
        /\ result[i].statusCode = 500

\* Invocation i returned a multipart plan.
MultipartPlanned(i) ==
    /\ IsPlan(i) /\ Done(i)
    /\ result[i].statusCode = 200
    /\ "uploadType" \in DOMAIN result[i]
    /\ result[i].uploadType = "multipart"

\* Another invocation, in flight or returned, planning a multipart upload.
OtherPlan(i, j) ==
    /\ j # i /\ IsPlan(j)
    /\ ValidPlanRequest(event[j]) /\ ~SingleShotSize(event[j])

\* The session id of the result is the one S3 returned to this invocation's
\* own initiate call.
OwnSession(i) ==
    /\ SessionIndex(result[i].uploadId) # 0
    /\ sessions[SessionIndex(result[i].uploadId)].owner = event[i].requestId

\* Every authorization of the result is for the result's key and session.
ScopedToOwn(i) ==
    \A k \in DOMAIN result[i].presignedUrls :
        /\ result[i].presignedUrls[k].presignedUrl.key = result[i].key
        /\ result[i].presignedUrls[k].presignedUrl.uploadId = result[i].uploadId

\* C16: a multipart plan, whatever other plans run beside it, has issued
\* exactly one initiate call, before its mint calls; its authorizations are
\* scoped to its own key and to the session its own initiate call returned;
\* and its result holds no session id and no key of another invocation.
Claim_C16 ==
    \A i \in Slots :
        MultipartPlanned(i)
        => /\ Cardinality(CallsOf(i, "initiate")) = 1
           /\ calls[i][1].op = "initiate"
           /\ result[i].key = key[i]
           /\ OwnSession(i)
           /\ ScopedToOwn(i)
           /\ \A j \in Slots :
                OtherPlan(i, j)
                => /\ result[i].uploadId # upload_id[j]
                   /\ result[i].key # key[j]

\* The same without the last conjunct: the keys of two invocations may be equal.
AllButDistinctKeys_C16 ==
    \A i \in Slots :
        MultipartPlanned(i)
        => /\ Cardinality(CallsOf(i, "initiate")) = 1
           /\ calls[i][1].op = "initiate"
           /\ result[i].key = key[i]
           /\ OwnSession(i)
           /\ ScopedToOwn(i)
           /\ \A j \in Slots : OtherPlan(i, j) => result[i].uploadId # upload_id[j]

\* The abort calls of invocation i that arrived when the session was completed.
AbortsAfterCompletion(i) ==
    {m \in CallsOf(i, "abort") : calls[i][m].sessionState = "completed"}

\* C17 as stated: over all finalize invocations on a session, at most one
\* returns success, and none issues an abortSession call for the session
\* after a completeSession call for it has succeeded.
Claim_C17 ==
    /\ \A n \in StoredSessions : sessions[n].successes <= 1
    /\ \A i \in Slots : IsFinalize(i) => AbortsAfterCompletion(i) = {}

\* C17, amended: over all finalize invocations on a session, at most one
\* returns success, and a session for which one did is and stays completed;
\* an abortSession call may still be issued for it afterwards, by an
\* invocation whose own completion was rejected, but every such call is
\* rejected and leaves the session completed.
Thm_C17 ==
    /\ \A n \in StoredSessions :
         /\ sessions[n].successes <= 1
         /\ sessions[n].successes = 1 <=> sessions[n].state = "completed"
    /\ \A i \in Slots :
         IsFinalize(i)
         => \A m \in AbortsAfterCompletion(i) :
               /\ calls[i][m].outcome # "ok"
               /\ SessionState(calls[i][m].uploadId) = "completed"

\* Two finalize invocations raced on an open session: this one's completion
\* was rejected, the other's succeeded, then this one's abort arrived.
Wit_C17 ==
    \E i \in Slots :
        /\ IsFinalize(i) /\ Done(i)
        /\ "initiated" \in SeenByComplete(i)
        /\ AbortsAfterCompletion(i) # {}
        /\ sessions[SessionIndex(upload_id[i])].successes = 1

\* The shapes of a result: a failure carries an error and nothing else.
IsFailure(res) ==
    res.statusCode \in {400, 500} /\ DOMAIN res = {"statusCode", "error"}

IsSuccess(res) == res.statusCode = 200 /\ "error" \notin DOMAIN res

\* Invocation i minted at least one part authorization, then a mint failed.
MintedThenFailed(i) ==
    \E n, m \in CallsOf(i, "mint") :
        n < m /\ calls[i][n].outcome = "ok" /\ calls[i][m].outcome # "ok"

\* C18: every returned invocation has exactly one outcome, a success result
\* or a failure result.  A failure holds an error and nothing else: no
\* session id, no list of authorizations, also when parts had been minted.
\* A success follows only store calls that all succeeded: a multipart plan
\* then lists every part it minted, and finalize says success: true only
\* when its completeSession call succeeded.
Thm_C18 ==
    \A i \in Slots :
        Done(i)
        => /\ IsSuccess(result[i]) \/ IsFailure(result[i])
           /\ ~(IsSuccess(result[i]) /\ IsFailure(result[i]))
           /\ ~AllCallsOk(i) => IsFailure(result[i])
           /\ MultipartPlanned(i)
                => Len(result[i].presignedUrls) = Cardinality(CallsOf(i, "mint"))
           /\ (IsFinalize(i) /\ "success" \in DOMAIN result[i])
                => result[i].success /\ CompleteSucceeded(i)
           /\ (IsFinalize(i) /\ IsSuccess(result[i]) /\ Parsed(event[i]))
                => "success" \in DOMAIN result[i]

\* A plan that had minted a part when a later mint failed: the minted part is
\* in the invocation's list, and the result is a bare failure.
Wit_C18 ==
    \E i \in Slots :
        /\ IsPlan(i) /\ Done(i)
        /\ MintedThenFailed(i)
        /\ parts_out[i] # <<>>
        /\ IsFailure(result[i])

\* Every entry of the manifest has an ETag and an integer PartNumber.
WellFormedManifest(e) ==
    \A k \in DOMAIN e.parts.items :
        e.parts.items[k].hasETag /\ e.parts.items[k].pnType = "int"

\* The part list of a complete call is the manifest, entry by entry.
SameAsManifest(parts, items) ==
    /\ Len(parts) = Len(items)
    /\ \A k \in DOMAIN items :
         /\ parts[k].ETag = items[k].ETag
         /\ parts[k].PartNumber = items[k].PartNumber

\* C19: a finalize with a non-empty manifest of well-formed entries is not
\* rejected before the store is asked: it issues exactly one completeSession
\* call, whose part list is the manifest in the caller's order, each tag with
\* its part number, nothing dropped, added or merged; it fails only when
\* that call fails.
Thm_C19 ==
    \A i \in Slots :
        (/\ IsFinalize(i)
         /\ ValidFinalizeRequest(event[i]) /\ WellFormedManifest(event[i]))
        => /\ pc[i] = "complete_multipart_upload" \/ PastComplete(i)
           /\ pc[i] = "complete_multipart_upload" => calls[i] = <<>>
           /\ PastComplete(i)
                => /\ Cardinality(CallsOf(i, "complete")) = 1
                   /\ calls[i][1].op = "complete"
                   /\ SameAsManifest(calls[i][1].parts, event[i].parts.items)
           /\ (Done(i) /\ IsFailure(result[i])) => CompleteFailed(i)

\* A manifest that lists part 2 before part 1 reached the store as it came;
\* the store rejected it and finalize failed.
Wit_C19 ==
    \E i \in Slots :
        /\ IsFinalize(i) /\ Done(i)
        /\ ValidFinalizeRequest(event[i])
        /\ Len(event[i].parts.items) = 2
        /\ event[i].parts.items[1].PartNumber > event[i].parts.items[2].PartNumber
        /\ calls[i][1].parts[1].PartNumber = 2
        /\ calls[i][1].outcome = "ClientError"
        /\ IsFailure(result[i])

\* A manifest that lists the same part twice reached the store with both
\* entries, and the store rejected it.
WitDuplicated_C19 ==
    \E i \in Slots :
        /\ IsFinalize(i) /\ Done(i)
        /\ ValidFinalizeRequest(event[i])
        /\ Len(event[i].parts.items) = 2
        /\ event[i].parts.items[1] = event[i].parts.items[2]
        /\ CompleteFailed(i)
        /\ Len(calls[i][1].parts) = 2

====
